---- MODULE Spec2Model ----
(***************************************************************************)
(* A model of experiments/run-big-bench.py: the parameter sweep of main    *)
(* with its read-merge-write result store, the scoring of compute_metrics  *)
(* and the binary ground-truth reader of load_benchmark_dataset.           *)
(*                                                                         *)
(* Four specifications share the module.  Spec is the sweep (main), run   *)
(* as one process that may be killed and started once more on the same     *)
(* store file.  SpecRecall is the scoring loop of compute_metrics.         *)
(* SpecGT is load_ground_truth on a file of a given size and header.       *)
(* SpecDataset is load_benchmark_dataset on three binary files.            *)
(* The variables of the specifications that are not running keep their     *)
(* idle values.                                                            *)
(***************************************************************************)
EXTENDS Integers, Sequences, FiniteSets, TLC

VARIABLES
    \* ---- the sweep (main) ----
    cfg,          \* the arguments of main
    file,         \* the store file metrics_file on disk
    file0,        \* history: the store file when this run started
    pc,           \* position of the process in main
    i, j, l,      \* positions in num_node_links, ef_cons_params, ef_search_params
    index,        \* type of the index train_index returned
    metrics,      \* the local dict `metrics`
    all_metrics,  \* the local dict `all_metrics`
    mismatch,     \* history: the last compute_metrics call got a list not of length k
    calls,        \* history: calls issued by this run, in order
    logged,       \* number of logging.error calls of this run
    err,          \* the exception that left main, or "none"
    restarted,    \* whether the process was killed and started again
    killPoint,    \* history: where the first run was killed
    persisted,    \* history: tuples whose record this run has dumped
    corruptSeen,  \* history: this run's json.load raised JSONDecodeError
    \* ---- compute_metrics, the recall loop ----
    rk, rnq, ridx, rsum, rcur, rpc,
    \* ---- load_ground_truth ----
    gin, gout,
    \* ---- load_benchmark_dataset ----
    din, dout

sweepVars == <<cfg, file, file0, pc, i, j, l, index, metrics, all_metrics, mismatch,
               calls, logged, err, restarted, killPoint, persisted, corruptSeen>>
recallVars == <<rk, rnq, ridx, rsum, rcur, rpc>>
gtVars == <<gin, gout>>
datasetVars == <<din, dout>>
vars == <<sweepVars, recallVars, gtVars, datasetVars>>

(***************************************************************************)
(* Bounds of the model.                                                    *)
(***************************************************************************)
MaxLen == 2      \* longest parameter list of a sweep
MaxKillAfter == 1 \* the first run is killed before it persists more records than this
MaxK == 2        \* largest k of a scoring call in SpecRecall
MaxQ == 2        \* most queries of a scoring call in SpecRecall
MaxGt == 2       \* longest ground-truth row in SpecRecall

(***************************************************************************)
(* Python dicts are functions from their keys.                             *)
(***************************************************************************)
EmptyDict == [x \in {} |-> 0]

DictSet(d, key, v) ==
    [x \in (DOMAIN d) \cup {key} |-> IF x = key THEN v ELSE d[x]]

Range(s) == {s[n] : n \in DOMAIN s}

RECURSIVE SumSeq(_)
SumSeq(s) == IF s = <<>> THEN 0 ELSE Head(s) + SumSeq(Tail(s))

(***************************************************************************)
(* compute_metrics.  top_k_indices is the list of result lists, one per    *)
(* query; ground_truth the rows of ids.  Timing values are opaque: every   *)
(* requested timing metric is the token "measured".  recall is the exact   *)
(* rational sum(hits_q / k) / len(queries), kept as num/den with           *)
(* den = k * len(queries).                                                 *)
(***************************************************************************)
RequestedMetrics ==
    {"recall", "qps", "latency", "latency_p95", "latency_p99", "latency_p999"}

TimingMetrics == {"qps", "latency", "latency_p95", "latency_p99", "latency_p999"}

\* line 169: not all(len(indices) == k for indices in top_k_indices)
CountMismatch(top_k_indices, k) ==
    \E q \in DOMAIN top_k_indices : Len(top_k_indices[q]) # k

\* Mutant: repeated ids of a result list are counted once.
QueryHitsDistinct(k_neighbors, gt_row) ==
    Cardinality(Range(k_neighbors) \cap Range(gt_row))

\* lines 193, 198-200: sum(1 for neighbor in k_neighbors if neighbor in set(gt))
QueryHits(k_neighbors, gt_row) ==
    LET ground_truth_set == Range(gt_row)
    IN  Cardinality({p \in DOMAIN k_neighbors : k_neighbors[p] \in ground_truth_set})

\* lines 195-204
Recall(top_k_indices, ground_truth, k) ==
    [num |-> SumSeq([q \in DOMAIN top_k_indices |->
                        QueryHits(top_k_indices[q], ground_truth[q])]),
     den |-> k * Len(top_k_indices)]

\* Mutant: the result-count check of line 169 is dropped.
ComputeMetricsNoCheck(requested_metrics, top_k_indices, ground_truth, k) ==
    [raised |-> FALSE,
     metrics |-> [key \in (requested_metrics \cap TimingMetrics) \cup {"recall"} |->
                    IF key = "recall" THEN Recall(top_k_indices, ground_truth, k)
                    ELSE "measured"]]

\* lines 120-206
ComputeMetrics(requested_metrics, top_k_indices, ground_truth, k) ==
    IF CountMismatch(top_k_indices, k)
    THEN [raised |-> TRUE, metrics |-> EmptyDict]
    ELSE [raised |-> FALSE,
          metrics |-> [key \in (requested_metrics \cap TimingMetrics) \cup {"recall"} |->
                         IF key = "recall" THEN Recall(top_k_indices, ground_truth, k)
                         ELSE "measured"]]

(***************************************************************************)
(* train_index.  The calls it issues are recorded as                       *)
(* [op, node_links, ef_cons, ef_search] with 0 where an argument does not  *)
(* apply; node_links of create_and_train_hnsw_index is the M it is given.  *)
(***************************************************************************)
KDefault == 100  \* k of compute_metrics when main calls it

Call(op, node_links, ef_cons, ef_search) ==
    [op |-> op, node_links |-> node_links, ef_cons |-> ef_cons, ef_search |-> ef_search]

\* flatnav.index.index_factory: the index class follows the distance
FlatnavType(distance_type) == IF distance_type = "l2" THEN "L2Index" ELSE "IPIndex"

\* lines 209-229; called with max_edges_per_node // 2 (lines 255, 272)
CreateAndTrainHnswIndex(max_edges_per_node, ef_construction) ==
    Call("create_and_train_hnsw_index", max_edges_per_node, ef_construction, 0)

\* lines 232-310
TrainIndex(c, node_links, ef_cons) ==
    IF c.index_type = "hnsw"
    THEN [raised |-> FALSE, index |-> "hnswlib.Index",
          calls |-> <<Call("train_index", node_links, ef_cons, 0),
                      CreateAndTrainHnswIndex(node_links \div 2, ef_cons)>>]
    ELSE IF c.use_hnsw_base_layer
    THEN IF ~c.hnsw_base_layer_filename
         THEN [raised |-> TRUE, index |-> "none",
               calls |-> <<Call("train_index", node_links, ef_cons, 0)>>]
         ELSE [raised |-> FALSE, index |-> FlatnavType(c.distance_type),
               calls |-> <<Call("train_index", node_links, ef_cons, 0),
                           CreateAndTrainHnswIndex(node_links \div 2, ef_cons),
                           Call("save_base_layer_graph", 0, 0, 0),
                           Call("build_graph_links", 0, 0, 0)>>]
    ELSE [raised |-> FALSE, index |-> FlatnavType(c.distance_type),
          calls |-> <<Call("train_index", node_links, ef_cons, 0),
                      Call("index.add", node_links, ef_cons, 0)>>]

\* lines 356-359: type(index) not in (L2Index, IPIndex)
IsFlatnavIndex(ix) == ix \in {"L2Index", "IPIndex"}

(***************************************************************************)
(* The store file.  Its content is one of: absent, empty (zero bytes),     *)
(* garbage (text that is not JSON), partial (a proper prefix of a dump,    *)
(* which is never a complete JSON document), binary (bytes that are not    *)
(* UTF-8 text), array (a complete JSON document that is an array, not an   *)
(* object) or valid, holding a document doc: backend name -> list of       *)
(* records.  A record is [m, by]: m is the dict that was dumped; by is a   *)
(* history tag, not part of the file, naming the loop values under which   *)
(* the record was computed.                                                *)
(***************************************************************************)
FileOf(kind, doc) == [kind |-> kind, doc |-> doc]

Tag(it, node_links, ef_cons, ef_search) ==
    [it |-> it, node_links |-> node_links, ef_cons |-> ef_cons, ef_search |-> ef_search]

Record(m, by) == [m |-> m, by |-> by]

\* The value json.load returns for an array file: a list, which is no dict.
ListDoc == [x \in {"<list>"} |-> <<>>]

\* lines 389: os.path.exists(metrics_file) and os.path.getsize(metrics_file) > 0
ExistsNonEmpty(f) == f.kind \notin {"absent", "empty"}

\* lines 390-392: open(metrics_file, "r") and json.load(file).  The file is
\* read as text (UTF-8): bytes that do not decode raise UnicodeDecodeError,
\* text that is not a complete JSON document raises JSONDecodeError.
JsonLoad(f) ==
    IF f.kind = "valid" THEN [raised |-> "none", doc |-> f.doc]
    ELSE IF f.kind = "array" THEN [raised |-> "none", doc |-> ListDoc]
    ELSE IF f.kind = "binary" THEN [raised |-> "UnicodeDecodeError", doc |-> EmptyDict]
    ELSE [raised |-> "JSONDecodeError", doc |-> EmptyDict]

\* json.dump(all_metrics, file, indent=4), once the file is closed
JsonDump(doc) == FileOf("valid", doc)

\* lines 387-394: only json.JSONDecodeError is caught (line 393).  Line 387
\* binds all_metrics = {index_type: []} before the file is read, so that is
\* its value when json.load raises, caught or not.
ReadStore(f, index_type) ==
    IF ExistsNonEmpty(f)
    THEN IF JsonLoad(f).raised = "JSONDecodeError"
         THEN [raised |-> "none", logged |-> 1,
               all_metrics |-> DictSet(EmptyDict, index_type, <<>>)]
         ELSE IF JsonLoad(f).raised # "none"
         THEN [raised |-> JsonLoad(f).raised, logged |-> 0,
               all_metrics |-> DictSet(EmptyDict, index_type, <<>>)]
         ELSE [raised |-> "none", logged |-> 0, all_metrics |-> JsonLoad(f).doc]
    ELSE [raised |-> "none", logged |-> 0, all_metrics |-> DictSet(EmptyDict, index_type, <<>>)]

\* lines 396-397 on a document that is a list: index_type is not in it, and
\* all_metrics[index_type] = [] raises TypeError
MergeRaises(am) == am = ListDoc

\* Mutant: the backend's sequence is replaced, not extended.
MergeRecordReplace(am, index_type, rec) == DictSet(am, index_type, <<rec>>)

\* lines 396-399
MergeRecord(am, index_type, rec) ==
    LET base == IF index_type \notin DOMAIN am THEN DictSet(am, index_type, <<>>) ELSE am
    IN  DictSet(base, index_type, Append(base[index_type], rec))

(***************************************************************************)
(* The sweep: inputs.                                                      *)
(***************************************************************************)
ParamList(n, step) == [p \in 1..n |-> step * p]

\* index_type, reordering_strategies is not None, use_hnsw_base_layer,
\* hnsw_base_layer_filename is given
Backends ==
    { <<"flatnav", FALSE, FALSE, FALSE>>, <<"flatnav", TRUE, FALSE, FALSE>>,
      <<"hnsw", FALSE, FALSE, FALSE>>, <<"hnsw", TRUE, FALSE, FALSE>>,
      <<"flatnav", FALSE, TRUE, TRUE>>, <<"flatnav", FALSE, TRUE, FALSE>> }

Configs ==
    { [num_node_links |-> ParamList(a, 16),
       ef_cons_params |-> ParamList(b, 100),
       ef_search_params |-> ParamList(c, 50),
       distance_type |-> d,
       index_type |-> be[1],
       reordering |-> be[2],
       use_hnsw_base_layer |-> be[3],
       hnsw_base_layer_filename |-> be[4]] :
      a \in 1..MaxLen, b \in 1..MaxLen, c \in 1..MaxLen,
      d \in {"l2", "angular"}, be \in Backends }

\* A record some earlier sweep left in the store.
PreRecord ==
    Record([key \in RequestedMetrics \cup {"distance_type"} |->
              IF key = "recall" THEN [num |-> 1, den |-> 2]
              ELSE IF key = "distance_type" THEN "l2" ELSE "measured"],
           Tag("earlier", 0, 0, 0))

InitialFiles ==
    { FileOf("absent", EmptyDict), FileOf("empty", EmptyDict),
      FileOf("garbage", EmptyDict), FileOf("partial", EmptyDict),
      FileOf("binary", EmptyDict), FileOf("array", EmptyDict),
      FileOf("valid", DictSet(EmptyDict, "hnsw", <<PreRecord>>)),
      FileOf("valid", DictSet(DictSet(EmptyDict, "hnsw", <<PreRecord>>),
                              "flatnav", <<PreRecord, PreRecord>>)) }

\* The queries and ground truth main is given: two queries, KDefault ids each.
SweepGroundTruth ==
    << [n \in 1..KDefault |-> n - 1], [n \in 1..KDefault |-> n] >>

\* What the backend's searches return for the two queries of one scoring call.
SearchOutcomes ==
    { SweepGroundTruth,
      << [n \in 1..KDefault |-> n - 1], [n \in 1..(KDefault - 1) |-> n] >>,
      << [n \in 1..(KDefault + 1) |-> n - 1], [n \in 1..KDefault |-> n] >> }

RecallIdle ==
    /\ rk = 0 /\ rnq = 0 /\ ridx = 0 /\ rsum = 0 /\ rcur = <<>> /\ rpc = "idle"

GtIdle == gin = <<>> /\ gout = <<>>

DatasetIdle == din = <<>> /\ dout = <<>>

SweepInit ==
    /\ cfg \in Configs
    /\ file \in InitialFiles
    /\ file0 = file
    /\ pc = "build"
    /\ i = 1 /\ j = 1 /\ l = 1
    /\ index = "none"
    /\ metrics = EmptyDict
    /\ all_metrics = EmptyDict
    /\ mismatch = FALSE
    /\ calls = <<>>
    /\ logged = 0
    /\ err = "none"
    /\ restarted = FALSE
    /\ killPoint = "none"
    /\ persisted = <<>>
    /\ corruptSeen = FALSE

Init == SweepInit /\ RecallIdle /\ GtIdle /\ DatasetIdle

(***************************************************************************)
(* The sweep: main, lines 313-401.                                         *)
(***************************************************************************)
CurrentTag ==
    Tag(cfg.index_type, cfg.num_node_links[i], cfg.ef_cons_params[j],
        cfg.ef_search_params[l])

\* Lines 336 and 339 write into the dict `metrics`.  Once a record has been
\* appended (line 399) that dict is the last record of all_metrics[index_type]:
\* the same object, so the record in the local all_metrics changes with it.
\* Before the first append all_metrics is not bound (the empty dict here).
SetLastRecord(am, index_type, m) ==
    IF index_type \notin DOMAIN am THEN am
    ELSE LET recs == am[index_type]
         IN  DictSet(am, index_type,
                     [recs EXCEPT ![Len(recs)] = Record(m, recs[Len(recs)].by)])

\* lines 335-363: the two outer loop heads, train_index, the reordering check,
\* index.reorder and index.set_num_threads
Build ==
    /\ pc = "build"
    /\ IF i > Len(cfg.num_node_links)
       THEN /\ pc' = "done"
            /\ UNCHANGED <<i, j, l, index, metrics, all_metrics, calls, err>>
       ELSE IF j > Len(cfg.ef_cons_params)
       THEN /\ i' = i + 1
            /\ j' = 1
            /\ UNCHANGED <<pc, l, index, metrics, all_metrics, calls, err>>
       ELSE LET m1 == IF j = 1
                      THEN DictSet(metrics, "node_links", cfg.num_node_links[i])
                      ELSE metrics
                r == TrainIndex(cfg, cfg.num_node_links[i], cfg.ef_cons_params[j])
            IN  /\ metrics' = DictSet(m1, "ef_construction", cfg.ef_cons_params[j])
                /\ all_metrics' = SetLastRecord(all_metrics, cfg.index_type, metrics')
                /\ index' = r.index
                /\ l' = 1
                /\ UNCHANGED <<i, j>>
                /\ IF r.raised
                   THEN /\ calls' = calls \o r.calls
                        /\ pc' = "error"
                        /\ err' = "ValueError: base layer filename"
                   ELSE IF cfg.reordering /\ ~IsFlatnavIndex(r.index)
                   THEN /\ calls' = calls \o r.calls
                        /\ pc' = "error"
                        /\ err' = "ValueError: reordering"
                   ELSE /\ calls' = IF cfg.reordering
                                    THEN (calls \o r.calls) \o <<Call("reorder", 0, 0, 0)>>
                                    ELSE calls \o r.calls
                        /\ pc' = "score"
                        /\ UNCHANGED err
    /\ UNCHANGED <<cfg, file, file0, mismatch, logged, restarted,
                   killPoint, persisted, corruptSeen, recallVars, gtVars, datasetVars>>

\* lines 364-399: the inner loop head, compute_metrics, the store read and merge
Score ==
    /\ pc = "score"
    /\ IF l > Len(cfg.ef_search_params)
       THEN /\ j' = j + 1
            /\ pc' = "build"
            /\ UNCHANGED <<metrics, all_metrics, mismatch, calls, logged, err, corruptSeen>>
       ELSE \E results \in SearchOutcomes :
              LET r == ComputeMetrics(RequestedMetrics, results, SweepGroundTruth,
                                      KDefault)
                  m == DictSet(r.metrics, "distance_type", cfg.distance_type)
                  s == ReadStore(file, cfg.index_type)
              IN  /\ mismatch' = CountMismatch(results, KDefault)
                  /\ calls' = Append(calls, Call("compute_metrics", cfg.num_node_links[i],
                                                 cfg.ef_cons_params[j],
                                                 cfg.ef_search_params[l]))
                  /\ UNCHANGED j
                  /\ IF r.raised
                     THEN /\ pc' = "error"
                          /\ err' = "RuntimeError: result count"
                          /\ UNCHANGED <<metrics, all_metrics, logged, corruptSeen>>
                     ELSE /\ metrics' = m
                          /\ logged' = logged + s.logged
                          /\ corruptSeen' = (corruptSeen \/ (ExistsNonEmpty(file)
                                                             /\ JsonLoad(file).raised # "none"))
                          /\ IF s.raised # "none"
                             THEN /\ pc' = "error"
                                  /\ err' = s.raised
                                  /\ all_metrics' = s.all_metrics
                             ELSE IF MergeRaises(s.all_metrics)
                             THEN /\ pc' = "error"
                                  /\ err' = "TypeError"
                                  /\ all_metrics' = s.all_metrics
                             ELSE /\ all_metrics' = MergeRecord(s.all_metrics,
                                                                cfg.index_type,
                                                                Record(m, CurrentTag))
                                  /\ pc' = "open"
                                  /\ UNCHANGED err
    /\ UNCHANGED <<cfg, file, file0, i, l, index, restarted, killPoint, persisted,
                   recallVars, gtVars, datasetVars>>

\* line 400: open(metrics_file, "w") creates or truncates the file
OpenForWrite ==
    /\ pc = "open"
    /\ file' = FileOf("empty", EmptyDict)
    /\ pc' = "dump"
    /\ UNCHANGED <<cfg, file0, i, j, l, index, metrics, all_metrics, mismatch, calls,
                   logged, err, restarted, killPoint, persisted, corruptSeen,
                   recallVars, gtVars, datasetVars>>

\* line 401, under way: the write buffer is flushed before the document is complete
FlushPart ==
    /\ pc = "dump"
    /\ file.kind = "empty"
    /\ file' = FileOf("partial", EmptyDict)
    /\ UNCHANGED <<cfg, file0, pc, i, j, l, index, metrics, all_metrics, mismatch, calls,
                   logged, err, restarted, killPoint, persisted, corruptSeen,
                   recallVars, gtVars, datasetVars>>

\* line 401 and the end of the with block: the whole document is on disk
Dump ==
    /\ pc = "dump"
    /\ file' = JsonDump(all_metrics)
    /\ persisted' = Append(persisted, CurrentTag)
    /\ l' = l + 1
    /\ pc' = "score"
    /\ UNCHANGED <<cfg, file0, i, j, index, metrics, all_metrics, mismatch, calls,
                   logged, err, restarted, killPoint, corruptSeen, recallVars, gtVars, datasetVars>>

Running == pc \in {"build", "score", "open", "dump"}

\* The first record of the run has just been dumped.
AfterFirstRecord ==
    pc = "score" /\ Len(persisted) = 1 /\ i = 1 /\ j = 1 /\ l = 2

\* The process is killed (the first run only).
Kill ==
    /\ Running
    /\ ~restarted
    /\ Len(persisted) <= MaxKillAfter
    /\ killPoint' = IF AfterFirstRecord THEN "after first record" ELSE "elsewhere"
    /\ pc' = "killed"
    /\ UNCHANGED <<cfg, file, file0, i, j, l, index, metrics, all_metrics, mismatch,
                   calls, logged, err, restarted, persisted, corruptSeen,
                   recallVars, gtVars, datasetVars>>

\* The sweep is started again with the same arguments and the same store file.
Restart ==
    /\ pc = "killed"
    /\ ~restarted
    /\ restarted' = TRUE
    /\ pc' = "build"
    /\ i' = 1 /\ j' = 1 /\ l' = 1
    /\ index' = "none"
    /\ metrics' = EmptyDict
    /\ all_metrics' = EmptyDict
    /\ mismatch' = FALSE
    /\ calls' = <<>>
    /\ logged' = 0
    /\ err' = "none"
    /\ persisted' = <<>>
    /\ corruptSeen' = FALSE
    /\ file0' = file
    /\ UNCHANGED <<cfg, file, killPoint, recallVars, gtVars, datasetVars>>

Next ==
    \/ Build
    \/ Score
    \/ OpenForWrite
    \/ FlushPart
    \/ Dump
    \/ Kill
    \/ Restart

Spec == Init /\ [][Next]_vars

(***************************************************************************)
(* Properties of the sweep.                                                *)
(***************************************************************************)
TagsOf(recs) == [n \in DOMAIN recs |-> recs[n].by]

CountTag(recs, t) == Cardinality({n \in DOMAIN recs : recs[n].by = t})

NumTuples(c) ==
    Len(c.num_node_links) * Len(c.ef_cons_params) * Len(c.ef_search_params)

\* The n-th (node_links, ef_cons, ef_search) of the nested iteration order.
NthTag(c, n) ==
    LET b == Len(c.ef_cons_params)
        w == Len(c.ef_search_params)
    IN  Tag(c.index_type,
            c.num_node_links[((n - 1) \div (b * w)) + 1],
            c.ef_cons_params[(((n - 1) \div w) % b) + 1],
            c.ef_search_params[((n - 1) % w) + 1])

ExpectedTags(c) == [n \in 1..NumTuples(c) |-> NthTag(c, n)]

\* The n-th (node_links, ef_cons) pair of the nested iteration order.
ExpectedBuilds(c) ==
    [n \in 1..(Len(c.num_node_links) * Len(c.ef_cons_params)) |->
        Call("train_index",
             c.num_node_links[((n - 1) \div Len(c.ef_cons_params)) + 1],
             c.ef_cons_params[((n - 1) % Len(c.ef_cons_params)) + 1], 0)]

IsBuild(e) == e.op = "train_index"
IsScore(e) == e.op = "compute_metrics"
IsBuildCall(e) == e.op \in {"train_index", "create_and_train_hnsw_index"}

\* C1: after a run killed right after its first record was persisted and a
\* restart with the same arguments and store file that ran to completion, the
\* store holds exactly one record for every tuple of the sweep.
C1_ResumeOneRecordPerTuple ==
    (restarted /\ pc = "done" /\ killPoint = "after first record") =>
        /\ file.kind = "valid"
        /\ cfg.index_type \in DOMAIN file.doc
        /\ \A n \in 1..NumTuples(cfg) :
              CountTag(file.doc[cfg.index_type], NthTag(cfg, n)) = 1

\* C2: every record main appended carries node_links, ef_construction,
\* ef_search and distance_type equal to the loop values that produced it, and
\* lies under its backend's name.
C2_RecordsTagged ==
    file.kind = "valid" =>
        \A b \in DOMAIN file.doc : \A n \in DOMAIN file.doc[b] :
            LET rec == file.doc[b][n]
            IN  rec.by.it # "earlier" =>
                  /\ b = rec.by.it
                  /\ {"node_links", "ef_construction", "ef_search", "distance_type"}
                        \subseteq DOMAIN rec.m
                  /\ rec.m["node_links"] = rec.by.node_links
                  /\ rec.m["ef_construction"] = rec.by.ef_cons
                  /\ rec.m["ef_search"] = rec.by.ef_search
                  /\ rec.m["distance_type"] = cfg.distance_type

\* C3: when reordering is requested for the hnsw backend, the error leaves main
\* before any index build call was issued, and the store is not written.
C3_ReorderErrorBeforeBuild ==
    err = "ValueError: reordering" =>
        /\ \A n \in DOMAIN calls : ~IsBuildCall(calls[n])
        /\ file = file0

\* C4: in the middle of a persistence step the store file holds a complete
\* document, the store before the step or the store after it.
C4_AtomicRewrite ==
    pc = "dump" =>
        /\ file.kind = "valid"
        /\ \/ file.doc = all_metrics
           \/ /\ cfg.index_type \in DOMAIN file.doc
              /\ all_metrics = DictSet(file.doc, cfg.index_type,
                                       Append(file.doc[cfg.index_type],
                                              Record(metrics, CurrentTag)))

\* C5: when a persistence step found the store file non-empty and unparsable,
\* the corruption was logged, no decoding error left main, and once the step
\* is over the store holds exactly this run's records under its backend name.
C5_CorruptStoreRecovered ==
    corruptSeen =>
        /\ logged >= 1
        /\ err \notin {"JSONDecodeError", "UnicodeDecodeError"}
        /\ (Len(persisted) >= 1 /\ pc \in {"build", "score", "open", "done", "error"}) =>
              /\ file.kind = "valid"
              /\ DOMAIN file.doc = {cfg.index_type}
              /\ TagsOf(file.doc[cfg.index_type]) = persisted
              /\ \A n \in DOMAIN persisted :
                    file.doc[cfg.index_type][n].m["distance_type"] = cfg.distance_type

\* C6: a sweep that started on an absent, empty or valid store and ran to
\* completion built once per (node_links, ef_cons) pair in nested order, scored
\* once per triple in nested order, each score after the build of its pair, and
\* left the store as it found it with one record per triple appended to its
\* backend's sequence in that order.
C6_SweepOrder ==
    (pc = "done" /\ file0.kind \in {"absent", "empty", "valid"}) =>
        LET doc0 == IF file0.kind = "valid" THEN file0.doc ELSE EmptyDict
            old == IF cfg.index_type \in DOMAIN doc0 THEN doc0[cfg.index_type] ELSE <<>>
            it == cfg.index_type
        IN  /\ SelectSeq(calls, IsBuild) = ExpectedBuilds(cfg)
            /\ TagsOf([n \in DOMAIN SelectSeq(calls, IsScore) |->
                        [by |-> Tag(it, SelectSeq(calls, IsScore)[n].node_links,
                                    SelectSeq(calls, IsScore)[n].ef_cons,
                                    SelectSeq(calls, IsScore)[n].ef_search)]])
                  = ExpectedTags(cfg)
            /\ \A p \in DOMAIN calls : IsScore(calls[p]) =>
                  \E q \in 1..(p - 1) :
                      /\ IsBuild(calls[q])
                      /\ calls[q].node_links = calls[p].node_links
                      /\ calls[q].ef_cons = calls[p].ef_cons
                      /\ \A r \in (q + 1)..(p - 1) : ~IsBuild(calls[r])
            /\ file.kind = "valid"
            /\ DOMAIN file.doc = (DOMAIN doc0) \cup {it}
            /\ \A b \in (DOMAIN doc0) \ {it} : file.doc[b] = doc0[b]
            /\ Len(file.doc[it]) = Len(old) + NumTuples(cfg)
            /\ SubSeq(file.doc[it], 1, Len(old)) = old
            /\ TagsOf(SubSeq(file.doc[it], Len(old) + 1, Len(file.doc[it])))
                  = ExpectedTags(cfg)

C6_Witness ==
    /\ pc = "done"
    /\ file0.kind = "valid"
    /\ cfg.index_type \in DOMAIN file0.doc
    /\ Len(cfg.num_node_links) >= 2
    /\ Len(cfg.ef_cons_params) >= 2
    /\ Len(cfg.ef_search_params) >= 2
    /\ Len(file.doc[cfg.index_type]) > NumTuples(cfg)

\* C7: a scoring call in which some query returned a number of results other
\* than k raises the result-count error: main stops there, no metrics dict is
\* produced, nothing is merged and the store file is not touched, then or later.
C7_CountMismatchRaises ==
    [][ /\ (mismatch' /\ ~mismatch) =>
            /\ pc' = "error"
            /\ err' = "RuntimeError: result count"
            /\ file' = file
            /\ metrics' = metrics
            /\ all_metrics' = all_metrics
            /\ persisted' = persisted
        /\ mismatch => file' = file ]_vars

C7_Witness ==
    /\ mismatch
    /\ pc = "error"
    /\ err = "RuntimeError: result count"
    /\ Len(persisted) >= 1

(***************************************************************************)
(* SpecRecall: the recall loop of compute_metrics, lines 192-204, on       *)
(* result lists of length k.  Each pass of the loop takes the next query's *)
(* result list and ground-truth row; rsum is mean_recall times k.          *)
(***************************************************************************)
Ids == 0..1

\* The sequences over S of length n.
SeqsOfLen(S, n) == [1..n -> S]

GtRows == UNION {SeqsOfLen(Ids, n) : n \in 1..MaxGt}

SweepIdle ==
    /\ cfg = <<>> /\ file = <<>> /\ file0 = <<>> /\ pc = "idle"
    /\ i = 0 /\ j = 0 /\ l = 0
    /\ index = "none" /\ metrics = EmptyDict /\ all_metrics = EmptyDict
    /\ mismatch = FALSE /\ calls = <<>> /\ logged = 0 /\ err = "none"
    /\ restarted = FALSE /\ killPoint = "none" /\ persisted = <<>>
    /\ corruptSeen = FALSE

NoQuery == [k_neighbors |-> <<>>, gt_row |-> <<>>, query_recall |-> 0]

RecallInit ==
    /\ rk \in 1..MaxK
    /\ rnq \in 1..MaxQ
    /\ ridx = 0
    /\ rsum = 0
    /\ rcur = NoQuery
    /\ rpc = "loop"

InitRecall == SweepIdle /\ RecallInit /\ GtIdle /\ DatasetIdle

\* lines 197-201: one pass of the loop over top_k_indices
RecallStep ==
    /\ rpc = "loop"
    /\ ridx < rnq
    /\ \E k_neighbors \in SeqsOfLen(Ids, rk), gt_row \in GtRows :
          LET query_recall == QueryHits(k_neighbors, gt_row)
          IN  /\ rsum' = rsum + query_recall
              /\ rcur' = [k_neighbors |-> k_neighbors, gt_row |-> gt_row,
                          query_recall |-> query_recall]
    /\ ridx' = ridx + 1
    /\ UNCHANGED <<rk, rnq, rpc, sweepVars, gtVars, datasetVars>>

\* lines 203-204: recall = mean_recall / len(queries), that is rsum / (rk * rnq)
RecallFinish ==
    /\ rpc = "loop"
    /\ ridx = rnq
    /\ rpc' = "done"
    /\ UNCHANGED <<rk, rnq, ridx, rsum, rcur, sweepVars, gtVars, datasetVars>>

NextRecall ==
    \/ RecallStep
    \/ RecallFinish

SpecRecall == InitRecall /\ [][NextRecall]_vars

\* C8: the recall returned is in [0,1] (the hits never exceed k per query, also
\* with repeated ids), and a query whose returned ids are, as a set, its whole
\* ground-truth id set has per-query recall query_recall / k = 1.
C8_RecallInUnitInterval ==
    /\ 0 <= rsum
    /\ rsum <= rk * ridx
    /\ rpc = "done" => (ridx = rnq /\ rsum <= rk * rnq)
    /\ (ridx >= 1 /\ Range(rcur.k_neighbors) = Range(rcur.gt_row)) =>
          rcur.query_recall = rk

C8_Witness ==
    /\ rpc = "done"
    /\ rnq >= 2
    /\ rk >= 2
    /\ Range(rcur.k_neighbors) = Range(rcur.gt_row)
    /\ Len(rcur.gt_row) < rk
    /\ rcur.query_recall = rk
    /\ rsum < rk * rnq

(***************************************************************************)
(* SpecGT: load_ground_truth, lines 41-71.                                 *)
(*                                                                         *)
(* File sizes and byte offsets exceed the 32-bit integers of TLC, so a       *)
(* natural number is a sequence of base-2^8 digits, least significant      *)
(* first.  A 32-bit unsigned value keeps the first four digits.            *)
(***************************************************************************)
Base == 2^8
DigitPos == 1..10
UInt32Digits == 1..4

\* n < 2^31 as digits
Num(n) == [d \in DigitPos |-> IF d \in UInt32Digits THEN (n \div (Base^(d - 1))) % Base ELSE 0]

RECURSIVE CarryFrom(_, _, _)
\* the digits of sum_d cols[d] * Base^(d-1) from position d on, given a carry
CarryFrom(cols, d, c) ==
    IF d \notin DigitPos THEN <<>>
    ELSE <<(cols[d] + c) % Base>> \o CarryFrom(cols, d + 1, (cols[d] + c) \div Base)

Add(a, b) == CarryFrom([d \in DigitPos |-> a[d] + b[d]], 1, 0)

Mul(a, b) ==
    CarryFrom([d \in DigitPos |-> SumSeq([p \in 1..d |-> a[p] * b[d - p + 1]])], 1, 0)

\* the value as a numpy uint32: modulo 2^32
WrapUInt32(a) == [d \in DigitPos |-> IF d \in UInt32Digits THEN a[d] ELSE 0]

RECURSIVE LessFrom(_, _, _)
LessFrom(a, b, d) ==
    IF d \notin DigitPos THEN FALSE
    ELSE IF a[d] # b[d] THEN a[d] < b[d]
    ELSE LessFrom(a, b, d - 1)

Less(a, b) == LessFrom(a, b, 10)

HeaderBytes == 8   \* two uint32 header fields; offset=8 of the id block
ItemSize == 4      \* np.dtype(np.uint32).itemsize, np.float32 alike

\* 8 + 2 * num_queries * K * 4: the size the header declares
DeclaredSize(num_queries, K) ==
    Add(Num(HeaderBytes), Mul(Num(2 * ItemSize), Mul(num_queries, K)))

\* line 68: offset = 8 + (num_queries * K * itemsize) on np.uint32 scalars.
\* num_queries * K is a uint32 product in every NumPy.  With the promotion
\* rules of NumPy 1 the Python ints 4 and 8 widen the rest to int64; with those
\* of NumPy 2 (nep50) the whole expression stays uint32.
DistsOffset(num_queries, K, nep50) ==
    LET count32 == WrapUInt32(Mul(num_queries, K))
    IN  IF nep50
        THEN WrapUInt32(Add(Num(HeaderBytes), WrapUInt32(Mul(count32, Num(ItemSize)))))
        ELSE Add(Num(HeaderBytes), Mul(count32, Num(ItemSize)))

\* 2^32 as digits
UInt32Limit == [d \in DigitPos |-> IF d = 5 THEN 1 ELSE 0]

\* np.memmap with offset an np.uint32 (the offset of line 68 under the rules of
\* NumPy 2): bytes = int(offset + size * itemsize) is a Python int, start is an
\* np.uint32, and `bytes -= start` raises OverflowError when bytes does not fit
\* in a uint32.  This comes before mmap is called.
MemmapOverflows(offset, num_queries, K) ==
    ~Less(Add(offset, Mul(Mul(num_queries, K), Num(ItemSize))), UInt32Limit)

\* np.memmap(path, mode="r", shape=(num_queries, K), offset=offset): the mapping
\* ends at offset + num_queries * K * itemsize (an intp product), and mmap
\* raises ValueError when that is past the end of the file.
MemmapFits(size, offset, num_queries, K) ==
    ~Less(size, Add(offset, Mul(Mul(num_queries, K), Num(ItemSize))))

GtPending ==
    [status |-> "pending", error |-> "none", ids_shape |-> <<>>, dists_shape |-> <<>>,
     ids_offset |-> <<>>, dists_offset |-> <<>>]

GtError(e) ==
    [status |-> "error", error |-> e, ids_shape |-> <<>>, dists_shape |-> <<>>,
     ids_offset |-> <<>>, dists_offset |-> <<>>]

\* lines 41-71.  f is the file: its size and the two header fields.
LoadGroundTruth(f, nep50) ==
    IF Less(f.size, Num(HeaderBytes))
    THEN GtError("IndexError")
    ELSE IF ~MemmapFits(f.size, Num(HeaderBytes), f.num_queries, f.K)
    THEN GtError("ValueError")
    ELSE IF nep50 /\ MemmapOverflows(DistsOffset(f.num_queries, f.K, nep50),
                                     f.num_queries, f.K)
    THEN GtError("OverflowError")
    ELSE IF ~MemmapFits(f.size, DistsOffset(f.num_queries, f.K, nep50),
                        f.num_queries, f.K)
    THEN GtError("ValueError")
    ELSE [status |-> "ok", error |-> "none",
          ids_shape |-> <<f.num_queries, f.K>>,
          dists_shape |-> <<f.num_queries, f.K>>,
          ids_offset |-> Num(HeaderBytes),
          dists_offset |-> DistsOffset(f.num_queries, f.K, nep50)]

QueryCounts == {1, 2, 1000, 65536, 1048576}
NeighborCounts == {1, 100, 1024, 65536}

\* The sizes tried for a header (num_queries, K): the declared size, four bytes
\* less, four bytes more, the header and id block alone, and half a header.
FileSizes(num_queries, K) ==
    { DeclaredSize(num_queries, K),
      Add(Num(HeaderBytes - ItemSize), Mul(Num(2 * ItemSize), Mul(num_queries, K))),
      Add(Num(HeaderBytes + ItemSize), Mul(Num(2 * ItemSize), Mul(num_queries, K))),
      Add(Num(HeaderBytes), Mul(Num(ItemSize), Mul(num_queries, K))),
      Num(ItemSize) }

GtInit ==
    /\ \E q \in QueryCounts, k \in NeighborCounts, nep50 \in BOOLEAN :
         \E size \in FileSizes(Num(q), Num(k)) :
            gin = [file |-> [size |-> size, num_queries |-> Num(q), K |-> Num(k)],
                   nep50 |-> nep50]
    /\ gout = GtPending

InitGT == SweepIdle /\ RecallIdle /\ GtInit /\ DatasetIdle

Load ==
    /\ gout.status = "pending"
    /\ gout' = LoadGroundTruth(gin.file, gin.nep50)
    /\ UNCHANGED <<gin, sweepVars, recallVars, datasetVars>>

NextGT == Load

SpecGT == InitGT /\ [][NextGT]_vars

\* C9: loading fails whenever the file size differs from 8 + 2*queryCount*K*4,
\* be the file shorter or longer, and then no view is returned.
C9_SizeMismatchRaises ==
    (gout.status # "pending"
     /\ gin.file.size # DeclaredSize(gin.file.num_queries, gin.file.K)) =>
        gout.status = "error"

\* C10: for a file of the declared size both views have shape (queryCount, K)
\* and the distance view starts at byte 8 + queryCount*K*4.
C10_ViewsShapeAndOffset ==
    (gout.status # "pending"
     /\ gin.file.size = DeclaredSize(gin.file.num_queries, gin.file.K)) =>
        /\ gout.status = "ok"
        /\ gout.ids_shape = <<gin.file.num_queries, gin.file.K>>
        /\ gout.dists_shape = <<gin.file.num_queries, gin.file.K>>
        /\ gout.dists_offset =
              Add(Num(HeaderBytes),
                  Mul(Mul(gin.file.num_queries, gin.file.K), Num(ItemSize)))

(***************************************************************************)
(* SpecDataset: load_benchmark_dataset on binary files, lines 30-117.      *)
(*                                                                         *)
(* The three paths exist and do not all end in "npy".  A file is its size  *)
(* and its two header fields.  A view of the training file is recorded as  *)
(* a window: the byte offset of its first element, the number of elements  *)
(* it holds and its shape; mapped_count is the element count handed to     *)
(* np.memmap.                                                              *)
(***************************************************************************)
RECURSIVE BorrowInto(_, _, _)
\* the borrow taken from digit d when b is subtracted from a
BorrowInto(a, b, d) ==
    IF d = 1 THEN 0
    ELSE IF a[d - 1] - b[d - 1] - BorrowInto(a, b, d - 1) < 0 THEN 1 ELSE 0

\* a - b for a >= b
Sub(a, b) == [d \in DigitPos |-> (a[d] - b[d] - BorrowInto(a, b, d)) % Base]

RECURSIVE RemAbove(_, _, _)
\* the remainder modulo m of the digits of a above position d
RemAbove(a, m, d) ==
    IF d + 1 \notin DigitPos THEN 0
    ELSE (RemAbove(a, m, d + 1) * Base + a[d + 1]) % m

\* a // m for a small positive m
FloorDiv(a, m) == [d \in DigitPos |-> (RemAbove(a, m, d) * Base + a[d]) \div m]

Min(a, b) == IF Less(b, a) THEN b ELSE a

\* line 86: np.float32 if the path ends with "fbin" else np.uint8, as itemsize
TrainItemSize(ext) == IF ext = "fbin" THEN ItemSize ELSE 1

\* line 95: chunk_size * num_dimensions * itemsize.  chunk_size and itemsize
\* are Python ints, num_dimensions an np.uint32: an int64 product with the
\* promotion rules of NumPy 1, a uint32 product with those of NumPy 2.
BytesToLoad(chunk_size, num_dimensions, itemsize, nep50) ==
    IF nep50
    THEN WrapUInt32(Mul(WrapUInt32(Mul(chunk_size, num_dimensions)), Num(itemsize)))
    ELSE Mul(Mul(chunk_size, num_dimensions), Num(itemsize))

\* line 100: shape=(total_size - 2,), the two header fields counted as two
\* elements whatever the element size.  total_size >= 2 as the file holds its
\* header.
MappedCount(total_size) == Sub(total_size, Num(2))

\* np.memmap(path, mode="r", shape=(count,), offset=offset) of elements of
\* itemsize bytes: mmap raises ValueError when the mapping ends past the file.
MemmapFitsFlat(size, offset, count, itemsize) ==
    ~Less(size, Add(offset, Mul(count, Num(itemsize))))

DatasetPending ==
    [status |-> "pending", error |-> "none", train_shape |-> <<>>,
     train_offset |-> <<>>, train_count |-> <<>>, mapped_count |-> <<>>,
     queries_shape |-> <<>>, gtruth_shape |-> <<>>]

DatasetError(e) ==
    [status |-> "error", error |-> e, train_shape |-> <<>>,
     train_offset |-> <<>>, train_count |-> <<>>, mapped_count |-> <<>>,
     queries_shape |-> <<>>, gtruth_shape |-> <<>>]

\* lines 94-104: the chunked branch.  t is the training file.
LoadChunk(t, chunk_size, nep50) ==
    LET itemsize == TrainItemSize(t.ext)
        total_size == FloorDiv(t.size, itemsize)
        bytes_to_load == BytesToLoad(chunk_size, t.num_dimensions, itemsize, nep50)
        mapped == MappedCount(total_size)
        sliced == Min(FloorDiv(bytes_to_load, itemsize), mapped)
    IN  IF ~MemmapFitsFlat(t.size, Num(HeaderBytes), mapped, itemsize)
        THEN [raised |-> TRUE, shape |-> <<>>, offset |-> <<>>, count |-> <<>>,
              mapped |-> mapped]
        ELSE IF sliced # Mul(chunk_size, t.num_dimensions)
        THEN [raised |-> TRUE, shape |-> <<>>, offset |-> <<>>, count |-> <<>>,
              mapped |-> mapped]
        ELSE [raised |-> FALSE, shape |-> <<chunk_size, t.num_dimensions>>,
              offset |-> Num(HeaderBytes), count |-> sliced, mapped |-> mapped]

\* lines 105-107: the whole payload read by np.fromfile, nothing mapped
LoadWhole(t) ==
    LET count == FloorDiv(Sub(t.size, Num(HeaderBytes)), TrainItemSize(t.ext))
    IN  IF count # Mul(t.num_points, t.num_dimensions)
        THEN [raised |-> TRUE, shape |-> <<>>, offset |-> <<>>, count |-> <<>>,
              mapped |-> Num(0)]
        ELSE [raised |-> FALSE, shape |-> <<t.num_points, t.num_dimensions>>,
              offset |-> Num(HeaderBytes), count |-> count, mapped |-> Num(0)]

\* lines 30-117.  d.chunk_size is 0 when no chunk size was given.
LoadBenchmarkDataset(d) ==
    IF Less(d.train.size, Num(HeaderBytes))
    THEN DatasetError("IndexError")
    ELSE LET train == IF d.chunk_size # Num(0)
                      THEN LoadChunk(d.train, d.chunk_size, d.nep50)
                      ELSE LoadWhole(d.train)
             gt == LoadGroundTruth(d.gtruth, d.nep50)
         IN  IF train.raised THEN DatasetError("ValueError")
             ELSE IF gt.status = "error" THEN DatasetError(gt.error)
             ELSE IF d.queries.count # Mul(d.gtruth.num_queries, d.train.num_dimensions)
             THEN DatasetError("ValueError")
             ELSE [status |-> "ok", error |-> "none",
                   train_shape |-> train.shape,
                   train_offset |-> train.offset,
                   train_count |-> train.count,
                   mapped_count |-> train.mapped,
                   queries_shape |-> <<d.gtruth.num_queries, d.train.num_dimensions>>,
                   gtruth_shape |-> gt.ids_shape]

PointCounts == {1, 3, 16777216}
Dimensions == {1, 2, 128}
TrainExts == {"fbin", "u8bin"}

\* no chunk size (0), one row, two rows, every row
ChunkSizes(n) == {c \in {0, 1, 2, n} : c <= n}

\* 8 + rows * num_dimensions * itemsize
VectorFileSize(rows, num_dimensions, itemsize) ==
    Add(Num(HeaderBytes), Mul(Mul(Num(rows), Num(num_dimensions)), Num(itemsize)))

\* the ground-truth files tried: two queries with one neighbour each, whole,
\* and a file of half a header
GroundTruthFiles ==
    { [size |-> DeclaredSize(Num(2), Num(1)), num_queries |-> Num(2), K |-> Num(1)],
      [size |-> Num(ItemSize), num_queries |-> Num(2), K |-> Num(1)] }

DatasetInit ==
    /\ \E n \in PointCounts, dim \in Dimensions, ext \in TrainExts,
          nep50 \in BOOLEAN, g \in GroundTruthFiles, extra \in {0, 1}, missing \in {0, 1} :
         \E c \in ChunkSizes(n) :
            din = [train |-> [ext |-> ext,
                              size |-> VectorFileSize(n - missing, dim, TrainItemSize(ext)),
                              num_points |-> Num(n),
                              num_dimensions |-> Num(dim)],
                   chunk_size |-> Num(c),
                   gtruth |-> g,
                   queries |-> [count |-> Add(Mul(g.num_queries, Num(dim)), Num(extra))],
                   nep50 |-> nep50]
    /\ dout = DatasetPending

InitDataset == SweepIdle /\ RecallIdle /\ GtIdle /\ DatasetInit

LoadDataset ==
    /\ dout.status = "pending"
    /\ dout' = LoadBenchmarkDataset(din)
    /\ UNCHANGED <<din, sweepVars, recallVars, gtVars>>

NextDataset == LoadDataset

SpecDataset == InitDataset /\ [][NextDataset]_vars

\* the training file holds its header and exactly num_points rows
ValidVectorFile(t) ==
    t.size = Add(Num(HeaderBytes),
                 Mul(Mul(t.num_points, t.num_dimensions), Num(TrainItemSize(t.ext))))

\* the call is a chunked load of a valid training file whose ground-truth and
\* query files load
ChunkedLoadCase ==
    /\ dout.status # "pending"
    /\ ValidVectorFile(din.train)
    /\ din.chunk_size # Num(0)
    /\ ~Less(din.train.num_points, din.chunk_size)
    /\ din.gtruth.size = DeclaredSize(din.gtruth.num_queries, din.gtruth.K)
    /\ din.queries.count = Mul(din.gtruth.num_queries, din.train.num_dimensions)

\* C11: a chunked load of a valid vector file of either element type, with
\* 1 <= C <= N, returns a train view of shape (C, D) over the first C rows of
\* the payload (C*D elements from byte 8), and the mapped byte range, 8 plus
\* the mapped element count times the element size, ends within the file.
C11_ChunkedLoadPrefix ==
    ChunkedLoadCase =>
        /\ dout.status = "ok"
        /\ dout.train_shape = <<din.chunk_size, din.train.num_dimensions>>
        /\ dout.train_offset = Num(HeaderBytes)
        /\ dout.train_count = Mul(din.chunk_size, din.train.num_dimensions)
        /\ MemmapFitsFlat(din.train.size, Num(HeaderBytes), dout.mapped_count,
                          TrainItemSize(din.train.ext))

====
